---- MODULE Spec2Model ----
(***************************************************************************)
(* A model of src/index.js: the line-oriented arithmetic compiler.         *)
(*                                                                         *)
(* A JavaScript string is modelled as a sequence of one-character strings  *)
(* (a token "10" is <<"1", "0">>), so that the regular expressions and the *)
(* Number() conversion are computed character by character.  A JavaScript  *)
(* value is a record with a field k: "number", "null", "undefined" or      *)
(* "string"; a string value holds its characters (s) when it is a token    *)
(* and its text when it is a formatted message.                            *)
(* Numbers are exact rationals n/d together with the IEEE-754 specials     *)
(* NaN, +Infinity, -Infinity and the negative zero; rounding is not        *)
(* modelled.                                                               *)
(***************************************************************************)
EXTENDS Integers, Sequences, FiniteSets, TLC

VARIABLES
  mode,        \* "parse": one call of parseExpression; "run": run(file), run(file2)
  input,       \* the token array as it was passed to parseExpression
  tokens,      \* the token array, which the parser pops from
  lineNumber,  \* the lineNumber argument
  stack,       \* the parser's stack
  pc,          \* "entry", "loop", "returned" | "run", "compiled" | "executed", "thrown"
  ret,         \* what parseExpression returned
  thrown,      \* the exception that left the call, "none" if none did
  file, file2,          \* the documents of two independent runs
  compiled, compiled2,  \* compile(file), compile(file2)
  output, output2       \* execute(compile(file)), execute(compile(file2))

vars == <<mode, input, tokens, lineNumber, stack, pc, ret, thrown,
          file, file2, compiled, compiled2, output, output2>>

(***************************************************************************)
(* Characters                                                              *)
(***************************************************************************)
NonZeroDigit == {"1", "2", "3", "4", "5", "6", "7", "8", "9"}
Digit == {"0"} \cup NonZeroDigit
OperatorChar == {"+", "-", "*", "/"}
WhiteSpace == {" ", "\n"}

DigitValue(c) ==
  CASE c = "0" -> 0 [] c = "1" -> 1 [] c = "2" -> 2 [] c = "3" -> 3
    [] c = "4" -> 4 [] c = "5" -> 5 [] c = "6" -> 6 [] c = "7" -> 7
    [] c = "8" -> 8 [] c = "9" -> 9

RECURSIVE Join(_)
\* the characters of a string put back together (template-literal text)
Join(chars) == IF chars = <<>> THEN "" ELSE Head(chars) \o Join(Tail(chars))

(***************************************************************************)
(* JavaScript values                                                       *)
(***************************************************************************)
Null == [k |-> "null"]
Undefined == [k |-> "undefined"]
Str(s) == [k |-> "string", s |-> s]
Text(t) == [k |-> "string", text |-> t]

NaN == [k |-> "number", cls |-> "NaN", n |-> 0, d |-> 0]
PosInfinity == [k |-> "number", cls |-> "Infinity", n |-> 1, d |-> 0]
NegInfinity == [k |-> "number", cls |-> "Infinity", n |-> -1, d |-> 0]
NegZero == [k |-> "number", cls |-> "-0", n |-> 0, d |-> 1]

Abs(i) == IF i < 0 THEN -i ELSE i

RECURSIVE GCD(_, _)
GCD(a, b) == IF b = 0 THEN a ELSE GCD(b, a % b)

\* the finite number n/d (d > 0) in lowest terms; zero is the positive zero
Fin(n, d) ==
  LET g == GCD(Abs(n), d)
  IN  [k |-> "number", cls |-> "finite", n |-> n \div g, d |-> d \div g]

IsZero(x) == x.cls = "-0" \/ (x.cls = "finite" /\ x.n = 0)
IsInf(x) == x.cls = "Infinity"
SignOf(x) == IF x.cls = "-0" \/ x.n < 0 THEN -1 ELSE 1
Signed(s, x) == IF s < 0 THEN (IF IsZero(x) THEN NegZero ELSE Fin(-x.n, x.d))
                ELSE x
Inf(s) == IF s < 0 THEN NegInfinity ELSE PosInfinity

Negate(x) ==
  CASE x.cls = "NaN" -> NaN
    [] x.cls = "Infinity" -> Inf(-x.n)
    [] x.cls = "-0" -> Fin(0, 1)
    [] OTHER -> IF x.n = 0 THEN NegZero ELSE Fin(-x.n, x.d)

\* IEEE-754 addition
NumAdd(x, y) ==
  CASE x.cls = "NaN" \/ y.cls = "NaN" -> NaN
    [] IsInf(x) /\ IsInf(y) -> IF x.n = y.n THEN x ELSE NaN
    [] IsInf(x) -> x
    [] IsInf(y) -> y
    [] x.cls = "-0" /\ y.cls = "-0" -> NegZero
    [] OTHER -> Fin(x.n * y.d + y.n * x.d, x.d * y.d)

NumSub(x, y) == NumAdd(x, Negate(y))

\* IEEE-754 multiplication
NumMul(x, y) ==
  CASE x.cls = "NaN" \/ y.cls = "NaN" -> NaN
    [] (IsInf(x) /\ IsZero(y)) \/ (IsZero(x) /\ IsInf(y)) -> NaN
    [] IsInf(x) \/ IsInf(y) -> Inf(SignOf(x) * SignOf(y))
    [] OTHER -> Signed(SignOf(x) * SignOf(y), Fin(Abs(x.n) * Abs(y.n), x.d * y.d))

\* IEEE-754 division
NumDiv(x, y) ==
  CASE x.cls = "NaN" \/ y.cls = "NaN" -> NaN
    [] (IsInf(x) /\ IsInf(y)) \/ (IsZero(x) /\ IsZero(y)) -> NaN
    [] IsInf(x) \/ IsZero(y) -> Inf(SignOf(x) * SignOf(y))
    [] IsInf(y) -> Signed(SignOf(x) * SignOf(y), Fin(0, 1))
    [] OTHER -> Signed(SignOf(x) * SignOf(y), Fin(Abs(x.n) * y.d, x.d * Abs(y.n)))

RECURSIVE DigitsValue(_)
DigitsValue(chars) ==
  IF chars = <<>> THEN 0
  ELSE 10 * DigitsValue(SubSeq(chars, 1, Len(chars) - 1))
         + DigitValue(chars[Len(chars)])

RECURSIVE Pow10(_)
Pow10(e) == IF e = 0 THEN 1 ELSE 10 * Pow10(e - 1)

AllDigits(chars) == \A i \in 1..Len(chars) : chars[i] \in Digit

\* Number(string) for strings over digits, ".", the operator characters and
\* letters other than those of the exponent, radix and Infinity forms:
\* an optional sign, then digits with an optional fraction, or a bare
\* fraction; the empty string is 0; anything else is NaN.
StringToNumber(chars) ==
  IF chars = <<>> THEN Fin(0, 1)
  ELSE
    LET signed == chars[1] \in {"+", "-"}
        body == IF signed THEN Tail(chars) ELSE chars
        dots == {i \in 1..Len(body) : body[i] = "."}
        p == IF dots = {} THEN Len(body) + 1
             ELSE CHOOSE i \in dots : \A j \in dots : i <= j
        int == SubSeq(body, 1, p - 1)
        frac == SubSeq(body, p + 1, Len(body))
    IN  IF AllDigits(int) /\ AllDigits(frac) /\ Len(int) + Len(frac) >= 1
        THEN Signed(IF chars[1] = "-" THEN -1 ELSE 1,
                    Fin(DigitsValue(int) * Pow10(Len(frac)) + DigitsValue(frac),
                        Pow10(Len(frac))))
        ELSE NaN

\* ToNumber of an operand of an arithmetic operator
ToNumber(v) ==
  CASE v.k = "number" -> v
    [] v.k = "null" -> Fin(0, 1)
    [] v.k = "undefined" -> NaN
    [] OTHER -> NaN  \* no string is ever an operand: a diagnostic is no node

(***************************************************************************)
(* The regular expressions                                                 *)
(***************************************************************************)
\* [0-9]* from position i: the positions at which the run of digits may end
DigitRunEnds(chars, i) ==
  {j \in i..(Len(chars) + 1) : \A m \in i..(j - 1) : chars[m] \in Digit}

\* (([1-9][0-9]*)|[0-9]) from position i
IntegerEnds(chars, i) ==
  IF i > Len(chars) THEN {}
  ELSE (IF chars[i] \in NonZeroDigit THEN DigitRunEnds(chars, i + 1) ELSE {})
         \cup (IF chars[i] \in Digit THEN {i + 1} ELSE {})

\* ((\.[0-9]+){0,1}) from position j
FractionEnds(chars, j) ==
  {j} \cup (IF j <= Len(chars) /\ chars[j] = "."
            THEN {m \in DigitRunEnds(chars, j + 1) : m > j + 1}
            ELSE {})

\* the positions at which a match of NUMBER_REGEX that starts at i may end
NumberMatchEnds(chars, i) ==
  UNION {FractionEnds(chars, j) : j \in IntegerEnds(chars, i)}

\* NUMBER_REGEX.test(token): the pattern has no ^ and no $, so a match may
\* start at any position and end before the end of the token
NUMBER_REGEX_test(chars) ==
  \E i \in 1..Len(chars) : NumberMatchEnds(chars, i) # {}

\* OPERATION_REGEX.test(token): again a match anywhere in the token
OPERATION_REGEX_test(chars) ==
  \E i \in 1..Len(chars) : chars[i] \in OperatorChar

(***************************************************************************)
(* Nodes and diagnostics                                                   *)
(***************************************************************************)
INCOMPLETE_EXPRESSION == "Incomplete expression provided"
INVALID_TOKEN == "Invalid token provided"
INVALID_STACK == "Invalid stack element"
MULTIPLE_EXPRESSIONS == "Multiple expressions on a single line"

\* the closure keeps the four arguments; token is a JavaScript value
CompilerError(error, expected, token, line) ==
  [type |-> "ERROR", isNode |-> FALSE, error |-> error, expected |-> expected,
   token |-> token, lineNumber |-> line]

VoidNode == [type |-> "VOID", isNode |-> TRUE]

NumberNode(number) == [type |-> "NUMBER", isNode |-> TRUE, number |-> number]

BinaryExpressionNodeSwapped(operation, arg1, arg2) ==
  [type |-> "BINARY_EXPRESSION", isNode |-> TRUE, operation |-> operation,
   arg1 |-> arg2, arg2 |-> arg1]

BinaryExpressionNode(operation, arg1, arg2) ==
  [type |-> "BINARY_EXPRESSION", isNode |-> TRUE, operation |-> operation,
   arg1 |-> arg1, arg2 |-> arg2]

\* `${v}` in a template literal
TemplateText(v) ==
  CASE v.k = "string" -> Join(v.s)
    [] v.k = "undefined" -> "undefined"
    [] v.k = "null" -> "null"

\* generateError(): the formatted message of a diagnostic
GenerateError(node) ==
  Text("[COMPILATION ERROR]: " \o node.error \o " => expected " \o node.expected
        \o ", got '" \o TemplateText(node.token) \o "' on line "
        \o ToString(node.lineNumber))

\* the switch of BinaryExpressionNode's value(): an operation that is none of
\* the four cases falls out of the switch and the function returns undefined
ApplyOperation(operation, a, b) ==
  CASE operation = <<"+">> -> NumAdd(ToNumber(a), ToNumber(b))
    [] operation = <<"-">> -> NumSub(ToNumber(a), ToNumber(b))
    [] operation = <<"*">> -> NumMul(ToNumber(a), ToNumber(b))
    [] operation = <<"/">> -> NumDiv(ToNumber(a), ToNumber(b))
    [] OTHER -> Undefined

RECURSIVE NodeValue(_)
\* node.value()
NodeValue(node) ==
  CASE node.type = "VOID" -> Null
    [] node.type = "NUMBER" -> StringToNumber(node.number)
    [] node.type = "BINARY_EXPRESSION" ->
         ApplyOperation(node.operation, NodeValue(node.arg1), NodeValue(node.arg2))
    [] node.type = "ERROR" -> GenerateError(node)

(***************************************************************************)
(* lexer, parseExpression                                                  *)
(***************************************************************************)
Last(seq) == seq[Len(seq)]
Front(seq) == SubSeq(seq, 1, Len(seq) - 1)

RECURSIVE Lexer(_)
\* line.split(/\s+/): the pieces between the maximal runs of white space
Lexer(line) ==
  LET ws == {i \in 1..Len(line) : line[i] \in WhiteSpace}
  IN  IF ws = {} THEN <<line>>
      ELSE LET p == CHOOSE i \in ws : \A j \in ws : i <= j
               q == CHOOSE j \in p..Len(line) :
                      /\ \A m \in p..j : line[m] \in WhiteSpace
                      /\ (j = Len(line) \/ line[j + 1] \notin WhiteSpace)
           IN  <<SubSeq(line, 1, p - 1)>> \o Lexer(SubSeq(line, q + 1, Len(line)))

\* tokens.pop() as a JavaScript value: undefined when the array is empty
PopValue(array) == IF array = <<>> THEN Undefined ELSE Str(Last(array))

\* !v
Falsy(v) == v.k \in {"undefined", "null"} \/ (v.k = "string" /\ v.s = <<>>)

RECURSIVE StackToString(_)
\* stack.toString()
StackToString(array) ==
  IF array = <<>> THEN ""
  ELSE IF Len(array) = 1 THEN "[object Object]"
  ELSE "[object Object]," \o StackToString(Tail(array))

\* a return statement of parseExpression
Return(st, result) == [st EXCEPT !.pc = "returned", !.ret = result]

\* lines 89-96: the null line, or the empty stack the loop starts with
ParseEntryNoLengthTest(toks, line) ==
  LET st == [tokens |-> toks, stack |-> <<>>, lineNumber |-> line,
             pc |-> "loop", ret |-> Undefined, thrown |-> "none"]
  IN  IF Len(toks) = 1 /\ toks[1] = <<>> THEN Return(st, VoidNode) ELSE st

ParseEntry(toks, line) ==
  LET st == [tokens |-> toks, stack |-> <<>>, lineNumber |-> line,
             pc |-> "loop", ret |-> Undefined, thrown |-> "none"]
  IN  IF Len(toks) = 0 \/ (Len(toks) = 1 /\ toks[1] = <<>>)
      THEN Return(st, VoidNode)
      ELSE st

\* lines 103-115: the stack is empty
StackEmptyPushesError(st, token) ==
  IF NUMBER_REGEX_test(token)
  THEN [st EXCEPT !.stack = Append(@, NumberNode(token))]
  ELSE [st EXCEPT !.stack = Append(@, CompilerError(INVALID_TOKEN,
                                "a number literal", Str(token), st.lineNumber))]

StackEmpty(st, token) ==
  IF NUMBER_REGEX_test(token)
  THEN [st EXCEPT !.stack = Append(@, NumberNode(token))]
  ELSE Return(st, CompilerError(INVALID_TOKEN, "a number literal", Str(token),
                                st.lineNumber))

\* lines 131-168: prevNode is a NUMBER or a BINARY_EXPRESSION
Reduce(st, prevNode, token) ==
  IF ~OPERATION_REGEX_test(token)
  THEN Return(st, CompilerError(INVALID_TOKEN, "an operation token", Str(token),
                                st.lineNumber))
  ELSE LET nextToken == PopValue(st.tokens)
           st1 == [st EXCEPT !.tokens = IF @ = <<>> THEN @ ELSE Front(@)]
       IN  IF Falsy(nextToken)
           THEN Return(st1, CompilerError(INCOMPLETE_EXPRESSION, "a number literal",
                                          nextToken, st.lineNumber))
           ELSE IF ~NUMBER_REGEX_test(nextToken.s)
           THEN Return(st1, CompilerError(INVALID_TOKEN, "a number literal",
                                          nextToken, st.lineNumber))
           ELSE [st1 EXCEPT !.stack = Append(@,
                   BinaryExpressionNode(token, prevNode, NumberNode(nextToken.s)))]

\* lines 116-178: the stack is not empty
StackNonEmpty(st, token) ==
  LET prevNode == Last(st.stack)
      st1 == [st EXCEPT !.stack = Front(@)]
  IN  IF ~prevNode.isNode
      THEN \* return lastToken: no lastToken is declared anywhere
           [st1 EXCEPT !.pc = "thrown", !.thrown = "ReferenceError"]
      ELSE IF prevNode.type \in {"NUMBER", "BINARY_EXPRESSION"}
      THEN Reduce(st1, prevNode, token)
      ELSE Return(st1, CompilerError(INVALID_STACK, "a number or an operation",
                                     Str(<<prevNode.type>>), st.lineNumber))

\* lines 98-179: one iteration of the while loop (tokens is not empty)
LoopBody(st) ==
  LET token == Last(st.tokens)
      st1 == [st EXCEPT !.tokens = Front(@)]
  IN  IF st1.stack = <<>> THEN StackEmpty(st1, token) ELSE StackNonEmpty(st1, token)

\* lines 183-192: the loop is left
LoopExit(st) ==
  IF Len(st.stack) > 1
  THEN Return(st, CompilerError(MULTIPLE_EXPRESSIONS, "a single token",
                                Str(<<StackToString(st.stack)>>), st.lineNumber))
  ELSE Return([st EXCEPT !.stack = IF @ = <<>> THEN @ ELSE Front(@)],
              IF st.stack = <<>> THEN Undefined ELSE Last(st.stack))

RECURSIVE RunLoop(_)
RunLoop(st) ==
  IF st.pc # "loop" THEN st
  ELSE RunLoop(IF st.tokens = <<>> THEN LoopExit(st) ELSE LoopBody(st))

\* parseExpression(tokens, lineNumber) as one call: the final parser state
ParseExpression(toks, line) == RunLoop(ParseEntry(toks, line))

(***************************************************************************)
(* compile, execute                                                        *)
(***************************************************************************)
RECURSIVE SplitKeepingNoEmptyLine(_)
SplitKeepingNoEmptyLine(text) ==
  LET nl == {i \in 1..Len(text) : text[i] = "\n"}
  IN  IF nl = {} THEN (IF text = <<>> THEN <<>> ELSE <<text>>)
      ELSE LET p == CHOOSE i \in nl : \A j \in nl : i <= j
           IN  (IF p = 1 THEN <<>> ELSE <<SubSeq(text, 1, p - 1)>>)
                 \o SplitKeepingNoEmptyLine(SubSeq(text, p + 1, Len(text)))

RECURSIVE Split(_)
\* file.split('\n'): a text with n newlines has n + 1 lines, empty ones included
Split(text) ==
  LET nl == {i \in 1..Len(text) : text[i] = "\n"}
  IN  IF nl = {} THEN <<text>>
      ELSE LET p == CHOOSE i \in nl : \A j \in nl : i <= j
           IN  <<SubSeq(text, 1, p - 1)>> \o Split(SubSeq(text, p + 1, Len(text)))

TrimNothing(line) == line

\* line.trim(): the line without its leading and trailing white space
Trim(line) ==
  LET ink == {i \in 1..Len(line) : line[i] \notin WhiteSpace}
  IN  IF ink = {} THEN <<>>
      ELSE SubSeq(line, CHOOSE i \in ink : \A j \in ink : i <= j,
                        CHOOSE i \in ink : \A j \in ink : i >= j)

\* the callback of compile's map; index counts from 0
CompileLine(line, index) == ParseExpression(Lexer(Trim(line)), index + 1)

CompileNumberingInkedLines(text) ==
  LET lines == Split(text)
      inked(i) == Cardinality({j \in 1..i : Trim(lines[j]) # <<>>})
  IN  [i \in 1..Len(lines) |-> CompileLine(lines[i], inked(i) - 1)]

\* compile(file): the final parser state of every line
Compile(text) ==
  LET lines == Split(text)
  IN  [i \in 1..Len(lines) |-> CompileLine(lines[i], i - 1)]

Results(states) == [i \in 1..Len(states) |-> states[i].ret]
SomeThrown(states) == \E i \in 1..Len(states) : states[i].pc = "thrown"

\* node.value() fails on an element that is no object
ExecuteThrows(nodes) == \E i \in 1..Len(nodes) : nodes[i] = Undefined

\* execute(stack)
Execute(nodes) == [i \in 1..Len(nodes) |-> NodeValue(nodes[i])]

(***************************************************************************)
(* Inputs                                                                  *)
(***************************************************************************)
MaxTokens == 5       \* the longest line over CoreTokens
MaxWideTokens == 3   \* the longest line over WideTokens
MaxDocChars == 6     \* the characters of file and file2 together

CoreTokens == {<<"2">>, <<"4">>, <<"1", "0">>, <<"-">>, <<"/">>}

WideTokens ==
  {<<>>, <<"0">>, <<"1">>, <<"3">>, <<"0", "1">>, <<"2", ".", "5">>,
   <<"-", "1">>, <<"a", "1">>, <<"+">>, <<"*">>, <<"/">>, <<"+", "-">>,
   <<"a", "+", "b">>}

\* the lines of the document that the file itself runs, as tokens
SourceLines ==
  << <<>>,
     << <<"1">> >>,
     << <<"1">>, <<"+">>, <<"2">>, <<"*">>, <<"3">> >>,
     << <<"2">>, <<"+">>, <<"3">> >>,
     << <<"1">>, <<"+">>, <<"1">> >>,
     << <<"2">>, <<"/">>, <<"2">> >>,
     << <<"+">>, <<"1">> >>,
     << <<"/">>, <<"+">>, <<"1">> >>,
     << <<"1">>, <<"+">> >>,
     <<>> >>

RECURSIVE JoinWith(_, _)
JoinWith(sep, seqs) ==
  IF seqs = <<>> THEN <<>>
  ELSE IF Len(seqs) = 1 THEN seqs[1]
  ELSE seqs[1] \o <<sep>> \o JoinWith(sep, Tail(seqs))

\* the template literal passed to run
SourceDocument ==
  JoinWith("\n", [i \in 1..Len(SourceLines) |-> JoinWith(" ", SourceLines[i])])

SeqsUpTo(S, n) == UNION {[1..m -> S] : m \in 0..n}

TokenArrays ==
  SeqsUpTo(CoreTokens, MaxTokens) \cup SeqsUpTo(WideTokens, MaxWideTokens)
    \cup {SourceLines[i] : i \in 1..Len(SourceLines)}

LineNumbers == {1, 12}

DocChars == {"1", "-", " ", "\n"}

(***************************************************************************)
(* The state machine                                                       *)
(***************************************************************************)
InitParse ==
  /\ mode = "parse"
  /\ input \in TokenArrays
  /\ tokens = input
  /\ lineNumber \in LineNumbers
  /\ pc = "entry"
  /\ file = <<>> /\ file2 = <<>>

InitRun ==
  /\ mode = "run"
  /\ input = <<>> /\ tokens = <<>> /\ lineNumber = 0
  /\ pc = "run"
  /\ \/ file = SourceDocument /\ file2 = <<>>
     \/ \E n \in 0..MaxDocChars : \E m \in 0..(MaxDocChars - n) :
          file \in [1..n -> DocChars] /\ file2 \in [1..m -> DocChars]

Init ==
  /\ InitParse \/ InitRun
  /\ stack = <<>> /\ ret = Undefined /\ thrown = "none"
  /\ compiled = <<>> /\ compiled2 = <<>>
  /\ output = <<>> /\ output2 = <<>>

ParserState ==
  [tokens |-> tokens, stack |-> stack, lineNumber |-> lineNumber,
   pc |-> pc, ret |-> ret, thrown |-> thrown]

SetParserState(st) ==
  /\ tokens' = st.tokens /\ stack' = st.stack /\ lineNumber' = st.lineNumber
  /\ pc' = st.pc /\ ret' = st.ret /\ thrown' = st.thrown
  /\ UNCHANGED <<mode, input, file, file2, compiled, compiled2, output, output2>>

\* parseExpression is called
ParseExpressionEntry ==
  /\ pc = "entry"
  /\ SetParserState(ParseEntry(tokens, lineNumber))

\* the loop condition holds: one iteration
WhileIteration ==
  /\ pc = "loop" /\ tokens # <<>>
  /\ SetParserState(LoopBody(ParserState))

\* the loop condition fails
WhileExit ==
  /\ pc = "loop" /\ tokens = <<>>
  /\ SetParserState(LoopExit(ParserState))

\* compile(file) of both runs
CompileFiles ==
  /\ pc = "run"
  /\ LET c == Compile(file)
         c2 == Compile(file2)
     IN  IF SomeThrown(c) \/ SomeThrown(c2)
         THEN /\ pc' = "thrown" /\ thrown' = "ReferenceError"
              /\ UNCHANGED <<compiled, compiled2>>
         ELSE /\ pc' = "compiled" /\ thrown' = thrown
              /\ compiled' = Results(c) /\ compiled2' = Results(c2)
  /\ UNCHANGED <<mode, input, tokens, lineNumber, stack, ret, file, file2,
                 output, output2>>

\* execute of what was compiled (of the one result in mode "parse")
ExecuteStack ==
  /\ pc \in {"returned", "compiled"}
  /\ LET nodes == IF mode = "parse" THEN <<ret>> ELSE compiled
     IN  IF ExecuteThrows(nodes) \/ ExecuteThrows(compiled2)
         THEN /\ pc' = "thrown" /\ thrown' = "TypeError"
              /\ UNCHANGED <<output, output2>>
         ELSE /\ pc' = "executed" /\ thrown' = thrown
              /\ output' = Execute(nodes) /\ output2' = Execute(compiled2)
  /\ UNCHANGED <<mode, input, tokens, lineNumber, stack, ret, file, file2,
                 compiled, compiled2>>

Next ==
  \/ ParseExpressionEntry
  \/ WhileIteration
  \/ WhileExit
  \/ CompileFiles
  \/ ExecuteStack

Spec == Init /\ [][Next]_vars

(***************************************************************************)
(* Vocabulary of the properties                                            *)
(***************************************************************************)
\* the numeral grammar ([1-9][0-9]*|[0-9])(\.[0-9]+)? matched by the whole token
IsNumeral(token) == (Len(token) + 1) \in NumberMatchEnds(token, 1)

\* exactly one of the four operators
IsOperator(token) == token \in {<<"+">>, <<"-">>, <<"*">>, <<"/">>}

IsParseResult(r) ==
  r # Undefined /\ r.type \in {"VOID", "NUMBER", "BINARY_EXPRESSION", "ERROR"}

Diagnostic(error, expected, token, line) ==
  [type |-> "ERROR", isNode |-> FALSE, error |-> error, expected |-> expected,
   token |-> token, lineNumber |-> line]

Returned == mode = "parse" /\ pc \in {"returned", "executed"}
Compiled == mode = "run" /\ pc \in {"compiled", "executed"}

\* numeral, operator, numeral, ..., numeral
Alternates(toks) ==
  /\ Len(toks) % 2 = 1
  /\ \A i \in 1..Len(toks) :
       IF i % 2 = 1 THEN IsNumeral(toks[i]) ELSE IsOperator(toks[i])

RECURSIVE ExpectedTree(_)
\* n1 op1 rest: the tree of rest on the left, n1 on the right
ExpectedTree(toks) ==
  IF Len(toks) = 1
  THEN [type |-> "NUMBER", isNode |-> TRUE, number |-> toks[1]]
  ELSE [type |-> "BINARY_EXPRESSION", isNode |-> TRUE, operation |-> toks[2],
        arg1 |-> ExpectedTree(SubSeq(toks, 3, Len(toks))),
        arg2 |-> [type |-> "NUMBER", isNode |-> TRUE, number |-> toks[1]]]

Arith(op, x, y) ==
  CASE op = <<"+">> -> NumAdd(x, y) [] op = <<"-">> -> NumSub(x, y)
    [] op = <<"*">> -> NumMul(x, y) [] op = <<"/">> -> NumDiv(x, y)

RECURSIVE ExpectedValue(_)
\* (...((nk op n(k-1)) op n(k-2)) ...) op1 n1
ExpectedValue(toks) ==
  IF Len(toks) = 1 THEN StringToNumber(toks[1])
  ELSE Arith(toks[2], ExpectedValue(SubSeq(toks, 3, Len(toks))),
             StringToNumber(toks[1]))

OnePlusTwoTimesThree == << <<"1">>, <<"+">>, <<"2">>, <<"*">>, <<"3">> >>
TenMinusTwoOverFour == << <<"1", "0">>, <<"-">>, <<"2">>, <<"/">>, <<"4">> >>
Integer(i) == [k |-> "number", cls |-> "finite", n |-> i, d |-> 1]

C2_NeverThrows ==
  /\ thrown = "none" /\ pc # "thrown"
  /\ Returned => IsParseResult(ret)
  /\ (Returned /\ pc = "executed") => Len(output) = 1
  /\ Compiled =>
       /\ \A i \in 1..Len(compiled) : IsParseResult(compiled[i])
       /\ \A i \in 1..Len(compiled2) : IsParseResult(compiled2[i])
  /\ (Compiled /\ pc = "executed") =>
       Len(output) = Len(compiled) /\ Len(output2) = Len(compiled2)

C2_Witness ==
  /\ Returned /\ pc = "executed" /\ input # <<>> /\ IsParseResult(ret)
  /\ ret.type = "ERROR" /\ ret.error = INCOMPLETE_EXPRESSION
  /\ output[1].k = "string"

\* the first iteration, which finds the stack empty, has removed Last(input)
FirstRemoved == mode = "parse" /\ pc # "entry" /\ Len(tokens) < Len(input)

\* the second iteration, which finds the stack not empty, has removed the
\* token before the last
SecondRemoved == mode = "parse" /\ pc # "entry" /\ Len(tokens) + 2 <= Len(input)

RECURSIVE OperatorsOf(_)
\* the operations of the BINARY_EXPRESSION nodes of a tree
OperatorsOf(node) ==
  IF node = Undefined \/ node.type # "BINARY_EXPRESSION" THEN {}
  ELSE {node.operation} \cup OperatorsOf(node.arg1) \cup OperatorsOf(node.arg2)

\* C3: with the stack empty the removed token becomes a NUMBER node only if
\* the whole token is a numeral of the grammar; any other token gives the
\* INVALID_TOKEN diagnostic that expected "a number literal", with that token
\* and the line number.
C3_OnlyNumeralsArePushed ==
  (FirstRemoved /\ ~IsNumeral(Last(input))) =>
    /\ pc \in {"returned", "executed"}
    /\ ret = Diagnostic(INVALID_TOKEN, "a number literal", Str(Last(input)),
                        lineNumber)

\* C4: with the stack not empty the removed token must be exactly +, -, * or
\* /; any other token gives the INVALID_TOKEN diagnostic that expected "an
\* operation token", and no BINARY_EXPRESSION node has another operation.
C4_OnlyOperatorsAreApplied ==
  /\ (SecondRemoved /\ ~IsOperator(input[Len(input) - 1])) =>
       /\ pc \in {"returned", "executed"}
       /\ ret = Diagnostic(INVALID_TOKEN, "an operation token",
                           Str(input[Len(input) - 1]), lineNumber)
  /\ \A i \in 1..Len(stack) : \A op \in OperatorsOf(stack[i]) : IsOperator(op)
  /\ \A op \in OperatorsOf(ret) : IsOperator(op)
  /\ \A i \in 1..Len(compiled) : \A op \in OperatorsOf(compiled[i]) : IsOperator(op)

\* C5: an operator with no token left of it gives the INCOMPLETE_EXPRESSION
\* diagnostic that expected "a number literal" with an empty offending token,
\* whose message ends "got '' on line <lineNumber>".
C5_IncompleteExpressionHasEmptyToken ==
  /\ (Returned /\ ret.type = "ERROR" /\ ret.error = INCOMPLETE_EXPRESSION
        /\ tokens = <<>> /\ OPERATION_REGEX_test(input[1])) =>
       /\ ret.expected = "a number literal"
       /\ TemplateText(ret.token) = ""
       /\ pc = "executed" =>
            output = <<Text("[COMPILATION ERROR]: Incomplete expression provided"
                         \o " => expected a number literal, got '' on line "
                         \o ToString(lineNumber))>>
  /\ Compiled =>
       \A i \in 1..Len(compiled) :
         (compiled[i].type = "ERROR" /\ compiled[i].error = INCOMPLETE_EXPRESSION)
           => /\ compiled[i].expected = "a number literal"
              /\ TemplateText(compiled[i].token) = ""

\* "[COMPILATION ERROR]: <kind> => expected <expected>, got '<token>' on line <n>"
IsFormattedDiagnostic(v, node) ==
  /\ v.k = "string" /\ node.type = "ERROR"
  /\ node.error \in {INCOMPLETE_EXPRESSION, INVALID_TOKEN, INVALID_STACK,
                     MULTIPLE_EXPRESSIONS}
  /\ v = Text("[COMPILATION ERROR]: " \o node.error \o " => expected "
                \o node.expected \o ", got '" \o TemplateText(node.token)
                \o "' on line " \o ToString(node.lineNumber))

\* C6: every element of execute(compile(document)) is a number, null or a
\* formatted diagnostic string; undefined is never produced.
C6_OutputValues ==
  (Compiled /\ pc = "executed") =>
    \A i \in 1..Len(output) :
      \/ output[i].k \in {"number", "null"}
      \/ IsFormattedDiagnostic(output[i], compiled[i])

\* the number of newline characters of a text
NewlineCount(text) == Cardinality({i \in 1..Len(text) : text[i] = "\n"})

\* the i-th line: the characters between the (i-1)-th and the i-th newline
LineAt(text, i) ==
  LET nl == {p \in 1..Len(text) : text[p] = "\n"}
      before(p) == Cardinality({q \in nl : q < p})
  IN  [j \in 1..Cardinality({p \in 1..Len(text) :
                               text[p] # "\n" /\ before(p) = i - 1}) |->
         text[CHOOSE p \in 1..Len(text) :
                /\ text[p] # "\n" /\ before(p) = i - 1
                /\ Cardinality({q \in 1..(p - 1) :
                                  text[q] # "\n" /\ before(q) = i - 1}) = j - 1]]

\* what line i of a document must compile to, taken alone
LineResult(text, i) == ParseExpression(Lexer(Trim(LineAt(text, i))), i).ret

\* C7: compile gives one result for each line of document.split("\n"), blank
\* lines included, in the order of the lines, and execute gives the values of
\* these results in the same order: as many as the newlines plus one.
C7_OneResultPerLine ==
  /\ Compiled =>
       /\ Len(compiled) = NewlineCount(file) + 1
       /\ \A i \in 1..Len(compiled) : compiled[i] = LineResult(file, i)
  /\ (Compiled /\ pc = "executed") =>
       /\ Len(output) = NewlineCount(file) + 1
       /\ \A i \in 1..Len(output) : output[i] = NodeValue(LineResult(file, i))

C7_Witness ==
  /\ Compiled /\ pc = "executed" /\ Len(output) = 3
  /\ output[1] = Null /\ output[2] = Integer(1) /\ output[3] = Null
  /\ LineAt(file, 2) = <<"1">>

\* a line of nothing but white space
IsBlank(line) == \A i \in 1..Len(line) : line[i] = " "

\* C8: a blank or white-space-only line gives the VOID node, whose value is
\* null and not the number 0, and never a diagnostic; and parseExpression
\* returns VOID for the empty token array and for the array of one empty
\* token only: with one token that is not empty the result is a NUMBER, a
\* BINARY_EXPRESSION or a diagnostic.
C8_VoidIffBlank ==
  /\ Compiled =>
       \A i \in 1..Len(compiled) :
         /\ IsBlank(LineAt(file, i)) =>
              compiled[i] = [type |-> "VOID", isNode |-> TRUE]
         /\ compiled[i].type = "VOID" => IsBlank(LineAt(file, i))
  /\ (Compiled /\ pc = "executed") =>
       \A i \in 1..Len(output) :
         IsBlank(LineAt(file, i)) => output[i] = Null /\ output[i] # Integer(0)
  /\ Returned =>
       /\ IsParseResult(ret)
       /\ ret.type = "VOID" <=> input \in {<<>>, << <<>> >>}
       /\ (\E i \in 1..Len(input) : input[i] # <<>>) =>
            ret.type \in {"NUMBER", "BINARY_EXPRESSION", "ERROR"}
  /\ (Returned /\ pc = "executed") => (output = <<Null>> <=> ret.type = "VOID")

C8_Witness ==
  /\ Compiled /\ pc = "executed" /\ Len(output) = 2
  /\ LineAt(file, 1) = <<" ", " ">> /\ compiled[1].type = "VOID"
  /\ output[1] = Null /\ output[2] = Integer(1)

\* C9: the result and the value at position i depend on the text of line i
\* and on i alone: two documents with the same text on line i have the same
\* result and value there, whatever their other lines are; and the line
\* number of a diagnostic is the 1-based index of its line.
C9_LinesAreIndependent ==
  /\ Compiled =>
       /\ \A i \in 1..Len(compiled) :
            (i <= Len(compiled2) /\ LineAt(file, i) = LineAt(file2, i))
              => compiled[i] = compiled2[i]
       /\ \A i \in 1..Len(compiled) :
            compiled[i].type = "ERROR" => compiled[i].lineNumber = i
       /\ \A i \in 1..Len(compiled2) :
            compiled2[i].type = "ERROR" => compiled2[i].lineNumber = i
  /\ (Compiled /\ pc = "executed") =>
       \A i \in 1..Len(output) :
         (i <= Len(output2) /\ LineAt(file, i) = LineAt(file2, i))
           => output[i] = output2[i]

C9_Witness ==
  /\ Compiled /\ pc = "executed" /\ Len(output) = 2 /\ Len(output2) = 2
  /\ LineAt(file, 2) = LineAt(file2, 2)
  /\ compiled[2].type = "ERROR" /\ compiled[2].lineNumber = 2
  /\ output[2] = output2[2]
  /\ compiled[1].type = "VOID" /\ compiled2[1].type = "ERROR"

\* C10: whenever the loop condition is evaluated after an iteration, the
\* stack holds one fragment, a NUMBER or a BINARY_EXPRESSION node; so the
\* branch that returns lastToken, the INVALID_STACK branch and the
\* MULTIPLE_EXPRESSIONS branch are never taken, and two numerals with no
\* operator between them give INVALID_TOKEN, expected "an operation token".
C10_StackHoldsOneNode ==
  /\ (FirstRemoved /\ pc = "loop") =>
       /\ Len(stack) = 1
       /\ stack[1].isNode
       /\ stack[1].type \in {"NUMBER", "BINARY_EXPRESSION"}
  /\ thrown # "ReferenceError"
  /\ Returned =>
       (ret # Undefined /\ (ret.type = "ERROR" =>
          ret.error \notin {INVALID_STACK, MULTIPLE_EXPRESSIONS}))
  /\ Compiled =>
       \A i \in 1..Len(compiled) :
         compiled[i].type = "ERROR" =>
           compiled[i].error \notin {INVALID_STACK, MULTIPLE_EXPRESSIONS}
  /\ (Returned /\ Len(input) = 2 /\ IsNumeral(input[1]) /\ IsNumeral(input[2])) =>
       ret = Diagnostic(INVALID_TOKEN, "an operation token", Str(input[1]),
                        lineNumber)

C10_Witness ==
  /\ FirstRemoved /\ pc = "loop" /\ tokens # <<>> /\ Len(tokens) + 3 = Len(input)
  /\ Len(stack) = 1 /\ stack[1].type = "BINARY_EXPRESSION"

====
